---- MODULE Spec2Model ----
(***************************************************************************)
(* A model of bids2isatab/main.py: the sidecar merge, the key-chain        *)
(* flattening and lookup, the study and assay table builders, the column   *)
(* filter and the ontology annotation.                                     *)
(*                                                                         *)
(* Text is a sequence of atoms (an atom stands for a run of characters     *)
(* that the program never splits), so that joining, formatting, slicing    *)
(* and substring tests are computed and not assumed.  A JSON value is a    *)
(* record [t, v, m]: t its type, v the text of a scalar, m the mapping of  *)
(* a dict.                                                                 *)
(***************************************************************************)
EXTENDS Integers, Sequences, FiniteSets, TLC

VARIABLES
    \* get_keychains / get_chainvalue on one document
    doc, chain, keychains, chainvalue,
    \* the study tree: the sidecars (path -> document), the state of each
    \* data file's image header, the working directory of the process
    jsonFiles, headers, cwd,
    \* _describe_mri_file: what it returned for each data file described
    described,
    \* _get_mri_assay_df: what each run on the tree returned
    runs,
    \* _get_study_df: the entries of the study root named sub-* (name -> is
    \* it a directory), participants.tsv, and the table returned
    rootEntries, participants, studyDf,
    \* extract after _get_mri_assay_df: the table as built, the table as it
    \* is now, the stage reached, the call (how it was made and its
    \* drop_parameter), the names printed as dropped, the warnings logged
    builtDf, assayDf, stage, call, printed, warnings

keychainVars == <<doc, chain, keychains, chainvalue>>
treeVars == <<jsonFiles, headers, cwd>>
mergeVars == <<described>>
assayVars == <<runs>>
studyVars == <<rootEntries, participants, studyDf>>
extractVars == <<builtDf, assayDf, stage, call, printed, warnings>>
vars == <<keychainVars, treeVars, mergeVars, assayVars, studyVars, extractVars>>

----------------------------------------------------------------------------
(* Bounds *)

\* nesting depth of the metadata documents
MaxDepth == 2
\* length of the key chains looked up
MaxChain == 2
\* runs of _get_mri_assay_df on one study tree
MaxRuns == 2
\* rows of participants.tsv
MaxParticipants == 2
\* columns and rows of the tables handed to the column filter
MaxCols == 3
MaxRows == 2

----------------------------------------------------------------------------
(* JSON values *)

EmptyMap == [k \in {} |-> 0]
Scalar(t, v) == [t |-> t, v |-> v, m |-> EmptyMap]
Dict(m) == [t |-> "dict", v |-> <<>>, m |-> m]

None == Scalar("null", <<>>)
Num0 == Scalar("num", <<"0">>)
Num1 == Scalar("num", <<"1">>)
Num2 == Scalar("num", <<"2">>)
StrEmpty == Scalar("str", <<>>)
StrUndefined == Scalar("str", <<"UNDEFINED">>)
StrX == Scalar("str", <<"x">>)

\* isinstance(d, dict)
IsDict(d) == d.t = "dict"

\* Python's truth value of a non-dict JSON value: None, False, 0, "" and []
\* are false, everything else is true.
Truthy(d) ==
    CASE d.t = "null" -> FALSE
      [] d.t = "bool" -> d.v = <<"true">>
      [] d.t = "num" -> d.v # <<"0">>
      [] d.t = "str" -> d.v # <<>>
      [] d.t = "list" -> d.v # <<>>
      [] OTHER -> TRUE

\* d == 'UNDEFINED'
EqUndefined(d) == d.t = "str" /\ d.v = <<"UNDEFINED">>

Keys == {<<"a">>, <<"b">>}
Leaves == {None, Num0, Num1, StrEmpty, StrUndefined, StrX}

RECURSIVE ValuesOfDepth(_)
ValuesOfDepth(n) ==
    IF n = 0 THEN Leaves
    ELSE LET sub == ValuesOfDepth(n - 1)
         IN  Leaves \cup
             {Dict(m) : m \in UNION {[S -> sub] : S \in SUBSET Keys}}

\* what json.load gives for a sidecar: a mapping
Documents == {d \in ValuesOfDepth(MaxDepth) : IsDict(d)}

RECURSIVE ChainsOfLength(_)
ChainsOfLength(n) ==
    IF n = 0 THEN {<<>>}
    ELSE {Append(c, k) : c \in ChainsOfLength(n - 1), k \in Keys}

Chains == UNION {ChainsOfLength(n) : n \in 0..MaxChain}

----------------------------------------------------------------------------
(* get_chainvalue, get_keychains *)

Returned(val) == [exc |-> "none", val |-> val]
Raised(exc) == [exc |-> exc, val |-> None]
NotCalled == [exc |-> "not called", val |-> None]

\* src = src[key] for each key of the chain; a KeyError is caught and gives
\* None, subscripting anything but a dict with a string raises TypeError,
\* which is not caught.
RECURSIVE get_chainvalue(_, _)
get_chainvalue(c, src) ==
    IF c = <<>> THEN Returned(src)
    ELSE IF ~IsDict(src) THEN Raised("TypeError")
    ELSE IF Head(c) \notin DOMAIN src.m THEN Returned(None)
    ELSE get_chainvalue(Tail(c), src.m[Head(c)])

RECURSIVE get_keychains(_, _, _)
RECURSIVE KeychainsOfItems(_, _, _, _)
\* the loop `for item in d` of get_keychains, over the items still to visit
KeychainsOfItems(d, items, dest, prefix) ==
    IF items = {} THEN dest
    ELSE LET item == CHOOSE k \in items : TRUE
         IN  KeychainsOfItems(d, items \ {item},
                 get_keychains(d.m[item], dest, Append(prefix, item)), prefix)

get_keychains(d, dest, prefix) ==
    IF IsDict(d) THEN KeychainsOfItems(d, DOMAIN d.m, dest, prefix)
    ELSE IF Truthy(d) /\ ~EqUndefined(d) THEN dest \cup {prefix}
    ELSE dest

----------------------------------------------------------------------------
(* Text: sequences of atoms *)

\* the number of characters an atom stands for
AtomLen(a) ==
    CASE a \in {"sub", "ses", "run", "bol"} -> 3
      [] a \in {"01", "02", "03"} -> 2
      [] a = ".nii.gz" -> 7
      [] a = ".json" -> 5
      [] a = "bids" -> 4
      [] a = "func" -> 4
      [] OTHER -> 1

\* s[n:]
RECURSIVE DropChars(_, _)
DropChars(s, n) ==
    IF n <= 0 \/ s = <<>> THEN s
    ELSE DropChars(Tail(s), n - AtomLen(Head(s)))

\* s[:n]
RECURSIVE TakeChars(_, _)
TakeChars(s, n) ==
    IF n <= 0 \/ s = <<>> THEN <<>>
    ELSE <<Head(s)>> \o TakeChars(Tail(s), n - AtomLen(Head(s)))

\* s.split(sep)
RECURSIVE SplitAcc(_, _, _)
SplitAcc(s, sep, cur) ==
    IF s = <<>> THEN <<cur>>
    ELSE IF Head(s) = sep THEN <<cur>> \o SplitAcc(Tail(s), sep, <<>>)
    ELSE SplitAcc(Tail(s), sep, Append(cur, Head(s)))

Split(s, sep) == SplitAcc(s, sep, <<>>)

\* sep.join(parts)
RECURSIVE JoinWith(_, _)
JoinWith(parts, sep) ==
    IF parts = <<>> THEN <<>>
    ELSE IF Len(parts) = 1 THEN parts[1]
    ELSE parts[1] \o <<sep>> \o JoinWith(Tail(parts), sep)

\* s.replace(old, new)
Replace(s, old, new) == [i \in 1..Len(s) |-> IF s[i] = old THEN new ELSE s[i]]

Last(s) == s[Len(s)]

\* s.split(".")[0]: the text before the first dot; the atoms that hold a dot
\* begin with it
DotAtoms == {".nii.gz", ".json"}
RECURSIVE BeforeDot(_)
BeforeDot(s) ==
    IF s = <<>> \/ Head(s) \in DotAtoms THEN <<>>
    ELSE <<Head(s)>> \o BeforeDot(Tail(s))

\* os.path.join(a, b)
opj2(a, b) ==
    IF b # <<>> /\ Head(b) = "/" THEN b
    ELSE IF a = <<>> \/ Last(a) = "/" THEN a \o b
    ELSE a \o <<"/">> \o b

opj3(a, b, c) == opj2(opj2(a, b), c)
opj4(a, b, c, d) == opj2(opj3(a, b, c), d)

\* os.path.split(p)[-1]
psplitTail(p) == Last(Split(p, "/"))

\* the directory part of a path
psplitHead(p) ==
    LET parts == Split(p, "/")
    IN  JoinWith(SubSeq(parts, 1, Len(parts) - 1), "/")

\* the file a path names in a process whose working directory is dir
AbsPath(p, dir) == IF p # <<>> /\ Head(p) = "/" THEN p ELSE opj2(dir, p)

\* os.path.exists of a sidecar path
existsJson(p, files, dir) == AbsPath(p, dir) \in DOMAIN files

----------------------------------------------------------------------------
(* get_metadata_for_nifti *)

NoComponent == <<"<None>">>

\* the last of the components kept, None if there is none
LastOrNone(hits) == IF hits = <<>> THEN NoComponent ELSE Last(hits)

\* merged_param_dict.update(param_dict)
DictUpdate(d, e) ==
    Dict([k \in DOMAIN d.m \cup DOMAIN e.m |->
            IF k \in DOMAIN e.m THEN e.m[k] ELSE d.m[k]])

\* the loop over potentialJSONs
RECURSIVE MergeJsons(_, _, _, _)
MergeJsons(paths, merged, files, dir) ==
    IF paths = <<>> THEN merged
    ELSE MergeJsons(Tail(paths),
            IF existsJson(Head(paths), files, dir)
            THEN DictUpdate(merged, files[AbsPath(Head(paths), dir)])
            ELSE merged,
            files, dir)

IsRun(c) == TakeChars(c, 3) = <<"run">>
IsSes(c) == TakeChars(c, 3) = <<"ses">>
IsSub(c) == TakeChars(c, 3) = <<"sub">>

\* the candidate sidecar paths of a data file, least specific first
potentialJSONs(bids_root, path) ==
    LET sidecarJSON == Replace(path, ".nii.gz", ".json")
        filenameComponents == Split(psplitTail(sidecarJSON), "_")
        NotRun(c) == ~IsRun(c)
        SubjectLevel(c) == ~IsRun(c) /\ ~IsSes(c)
        TopLevel(c) == ~IsRun(c) /\ ~IsSes(c) /\ ~IsSub(c)
        SesTok(c) == ~IsRun(c) /\ IsSes(c)
        SubTok(c) == ~IsRun(c) /\ ~IsSes(c) /\ IsSub(c)
        sessionLevelComponentList == SelectSeq(filenameComponents, NotRun)
        subjectLevelComponentList == SelectSeq(filenameComponents, SubjectLevel)
        topLevelComponentList == SelectSeq(filenameComponents, TopLevel)
        ses == LastOrNone(SelectSeq(filenameComponents, SesTok))
        sub == LastOrNone(SelectSeq(filenameComponents, SubTok))
        topLevelJSON == opj2(bids_root, JoinWith(topLevelComponentList, "_"))
        subjectLevelJSON ==
            opj3(bids_root, sub, JoinWith(subjectLevelComponentList, "_"))
        sessionLevelJSON ==
            opj4(bids_root, sub, ses, JoinWith(sessionLevelComponentList, "_"))
    IN  <<topLevelJSON, subjectLevelJSON>>
        \o (IF ses # NoComponent THEN <<sessionLevelJSON>> ELSE <<>>)
        \o <<sidecarJSON>>

get_metadata_for_nifti(bids_root, path, files, dir) ==
    MergeJsons(potentialJSONs(bids_root, path), Dict(EmptyMap), files, dir)

----------------------------------------------------------------------------
(* _describe_mri_file *)

Str(s) == Scalar("str", s)

\* what the image header of a readable file gives
Zooms3 == Str(<<"1.0x1.0x1.0">>)
XyzUnit == Str(<<"mm">>)
Zoom4 == Scalar("num", <<"2.0">>)
TUnit == Str(<<"sec">>)

HeaderStates == {"3d", "4d", "missing", "corrupt"}

\* headers[fpath] is "missing" for a dead link (the name is listed, the file
\* does not exist), "corrupt" for a file nibabel.load cannot read, "3d" or
\* "4d" for a readable image without or with a time axis.
_describe_mri_file(fpath, bids_directory, files, hdrs, dir) ==
    LET fname == psplitTail(fpath)
        info == [k \in {"sample_name", "assay_name", "raw_filepath", "type",
                        "other_fields"} |->
                    CASE k = "sample_name" ->
                            Str(DropChars(Split(fname, "_")[1], 4))
                      [] k = "assay_name" -> Str(BeforeDot(fname))
                      [] k = "raw_filepath" ->
                            Str(SubSeq(fpath, Len(bids_directory) + 1, Len(fpath)))
                      [] k = "type" ->
                            Str(BeforeDot(Last(Split(fname, "_"))))
                      [] k = "other_fields" ->
                            get_metadata_for_nifti(bids_directory, fname, files, dir)]
        spatial == [k \in {"resolution", "resolutions_units"} |->
                      IF k = "resolution" THEN Zooms3 ELSE XyzUnit]
        temporal == [k \in {"rts", "rts_units"} |->
                      IF k = "rts" THEN Zoom4 ELSE TUnit]
    IN  CASE hdrs[fpath] = "missing" ->
                [exc |-> "none", warned |-> TRUE, info |-> info]
          [] hdrs[fpath] = "corrupt" ->
                [exc |-> "ImageFileError", warned |-> FALSE, info |-> EmptyMap]
          [] hdrs[fpath] = "3d" ->
                [exc |-> "none", warned |-> FALSE, info |-> info @@ spatial]
          [] OTHER ->
                [exc |-> "none", warned |-> FALSE,
                 info |-> info @@ spatial @@ temporal]

----------------------------------------------------------------------------
(* The value of each part of the state in a specification that does not     *)
(* use it                                                                   *)

KeychainIdle ==
    /\ doc = None
    /\ chain = <<>>
    /\ keychains = [done |-> FALSE, set |-> {}]
    /\ chainvalue = NotCalled

TreeIdle ==
    /\ jsonFiles = EmptyMap
    /\ headers = EmptyMap
    /\ cwd = <<"/">>

MergeIdle == described = EmptyMap

AssayIdle == runs = <<>>

NoTable == [done |-> FALSE, df |-> <<>>]

StudyIdle ==
    /\ rootEntries = EmptyMap
    /\ participants = [exists |-> FALSE, rows |-> <<>>]
    /\ studyDf = NoTable

DropNone == [kind |-> "None", text |-> <<>>, items |-> <<>>]

ExtractIdle ==
    /\ builtDf = <<>>
    /\ assayDf = <<>>
    /\ stage = "idle"
    /\ call = [via |-> "none", keep_unknown |-> FALSE, drop_parameter |-> DropNone]
    /\ printed = <<>>
    /\ warnings = {}

----------------------------------------------------------------------------
(* The study trees of the merge specification *)

BidsRoot == <<"/", "bids">>
Sub01 == <<"sub", "-", "01">>
Sub02 == <<"sub", "-", "02">>
Ses1 == <<"ses", "-", "1">>
Run1 == <<"run", "-", "1">>
Bold == <<"bol", "d">>
Func == <<"func">>

Nii(name) == name \o <<".nii.gz">>
Json(name) == name \o <<".json">>
Under(dirs, name) == JoinWith(<<BidsRoot>> \o dirs \o <<name>>, "/")

\* sub-01/func/sub-01_run-1_bold.nii.gz
FileRun == Under(<<Sub01, Func>>, Nii(JoinWith(<<Sub01, Run1, Bold>>, "_")))
\* sub-01/ses-1/func/sub-01_ses-1_bold.nii.gz
FileSes == Under(<<Sub01, Ses1, Func>>, Nii(JoinWith(<<Sub01, Ses1, Bold>>, "_")))

MergeFiles == {FileRun, FileSes}

\* the four levels at which a sidecar of a data file may lie
TopJson == Under(<<>>, Json(Bold))
SubjectJson == Under(<<Sub01>>, Json(JoinWith(<<Sub01, Bold>>, "_")))
SessionJson == Under(<<Sub01, Ses1>>, Json(JoinWith(<<Sub01, Ses1, Bold>>, "_")))
FileJson(f) == Replace(f, ".nii.gz", ".json")

MergeJsonPaths == {TopJson, SubjectJson, SessionJson} \cup {FileJson(f) : f \in MergeFiles}

Flat(k, v) == Dict([x \in {k} |-> v])
MergeContents == {Flat(<<"a">>, Num1), Flat(<<"a">>, Num2), Flat(<<"b">>, Num1)}

MergeCwds == {<<"/">>} \cup {psplitHead(f) : f \in MergeFiles}

NotDescribed == [exc |-> "not called", warned |-> FALSE, info |-> EmptyMap]

InitMerge ==
    /\ \E present \in SUBSET MergeJsonPaths : jsonFiles \in [present -> MergeContents]
    /\ headers \in [MergeFiles -> HeaderStates]
    /\ cwd \in MergeCwds
    /\ described = [f \in MergeFiles |-> NotDescribed]
    /\ KeychainIdle
    /\ AssayIdle
    /\ StudyIdle
    /\ ExtractIdle

DescribeMriFile(f) ==
    /\ described[f] = NotDescribed
    /\ described' = [described EXCEPT
                        ![f] = _describe_mri_file(f, BidsRoot, jsonFiles, headers, cwd)]
    /\ UNCHANGED <<keychainVars, treeVars, assayVars, studyVars, extractVars>>

NextMerge == \E f \in MergeFiles : DescribeMriFile(f)

SpecMerge == InitMerge /\ [][NextMerge]_vars

----------------------------------------------------------------------------
(* Tables: an ordered sequence of columns [name, vals] *)

\* "Parameter Value[{}]".format(n)
ParameterValue(n) == <<"Parameter Value[">> \o n \o <<"]">>

Column(name, vals) == [name |-> name, vals |-> vals]
ColumnNames(cols) == {cols[i].name : i \in DOMAIN cols}

\* d[name] = vals on an OrderedDict: a key already present keeps its place
OdSet(cols, name, vals) ==
    IF name \in ColumnNames(cols)
    THEN [i \in DOMAIN cols |->
            IF cols[i].name = name THEN Column(name, vals) ELSE cols[i]]
    ELSE Append(cols, Column(name, vals))

\* the order of atoms in sorted text
AtomRank(a) ==
    CASE a = "-" -> 1
      [] a = "01" -> 2
      [] a = "02" -> 3
      [] a = "03" -> 4
      [] a = "1" -> 5
      [] a = "2" -> 6
      [] a = "_" -> 7
      [] a = "bol" -> 8
      [] a = "d" -> 9
      [] a = "run" -> 10
      [] a = "ses" -> 11
      [] a = "sub" -> 12
      [] OTHER -> 13

\* a < b for text
RECURSIVE TextLess(_, _)
TextLess(a, b) ==
    IF b = <<>> THEN FALSE
    ELSE IF a = <<>> THEN TRUE
    ELSE IF AtomRank(Head(a)) # AtomRank(Head(b))
         THEN AtomRank(Head(a)) < AtomRank(Head(b))
    ELSE TextLess(Tail(a), Tail(b))

\* the row numbers 1..Len(keys) in ascending order of their text key
RECURSIVE SortedRows(_, _)
SortedRows(keys, left) ==
    IF left = {} THEN <<>>
    ELSE LET least == CHOOSE i \in left :
                        \A j \in left \ {i} :
                            TextLess(keys[i].v, keys[j].v)
                            \/ (~TextLess(keys[j].v, keys[i].v) /\ i < j)
         IN  <<least>> \o SortedRows(keys, left \ {least})

\* df.sort_values([by])
SortValues(cols, by) ==
    LET key == (CHOOSE i \in DOMAIN cols : cols[i].name = by)
        order == SortedRows(cols[key].vals, DOMAIN cols[key].vals)
    IN  [i \in DOMAIN cols |->
            Column(cols[i].name, [r \in DOMAIN order |-> cols[i].vals[order[r]]])]

\* the orders in which a set may be enumerated
Orders(S) ==
    {o \in [1..Cardinality(S) -> S] : \A i, j \in DOMAIN o : o[i] = o[j] => i = j}

----------------------------------------------------------------------------
(* parameter_name_map and _get_mri_assay_df *)

\* str.lower() of an atom
LowerAtom(a) ==
    CASE a = "FlipAngle" -> "flipangle"
      [] a = "EchoTime" -> "echotime"
      [] a = "Resolution" -> "resolution"
      [] OTHER -> a

Lower(s) == [i \in DOMAIN s |-> LowerAtom(s[i])]

parameter_name_map ==
    [k \in {<<"manufacturermodelname">>, <<"manufacturer">>, <<"receivecoilname">>,
            <<"magneticfieldstrength">>, <<"echotime">>, <<"repetitiontime">>,
            <<"flipangle">>, <<"pulsesequencetype">>} |->
        CASE k = <<"manufacturermodelname">> -> <<"instrument name">>
          [] k = <<"manufacturer">> -> <<"instrument manufacturer">>
          [] k = <<"receivecoilname">> -> <<"coil type">>
          [] k = <<"magneticfieldstrength">> -> <<"magnetic field strength">>
          [] k = <<"echotime">> -> <<"echo time">>
          [] k = <<"repetitiontime">> -> <<"repetition time">>
          [] k = <<"flipangle">> -> <<"flip angle">>
          [] OTHER -> <<"sequence">>]

\* the column of a key chain: the keys joined by ':', normalised by
\* parameter_name_map on the lower-case name
ColumnId(field) ==
    LET field_name == JoinWith(field, ":")
        normal == IF Lower(field_name) \in DOMAIN parameter_name_map
                  THEN parameter_name_map[Lower(field_name)]
                  ELSE field_name
    IN  ParameterValue(normal)

\* the part of a path below the study root, by directory
RelParts(fpath, bids_directory) ==
    Split(SubSeq(fpath, Len(bids_directory) + 2, Len(fpath)), "/")

StartsSub(c) == Len(c) >= 2 /\ SubSeq(c, 1, 2) = <<"sub", "-">>
StartsSes(c) == Len(c) >= 2 /\ SubSeq(c, 1, 2) = <<"ses", "-">>
EndsNii(c) == c # <<>> /\ Last(c) = ".nii.gz"
\* fnmatch of a file name against sub-*_ses-*.nii.gz
SubSesNii(c) ==
    /\ StartsSub(c) /\ EndsNii(c)
    /\ \E i \in 3..(Len(c) - 3) : SubSeq(c, i, i + 2) = <<"_", "ses", "-">>

\* glob(bids_directory/sub-*/*/sub-*.nii.gz), as a set
GlobPlain(names, bids_directory) ==
    {f \in names :
        LET parts == RelParts(f, bids_directory)
        IN  Len(parts) = 3 /\ StartsSub(parts[1]) /\ StartsSub(parts[3])
            /\ EndsNii(parts[3])}

\* glob(bids_directory/sub-*/ses-*/*/sub-*_ses-*.nii.gz), as a set
GlobSession(names, bids_directory) ==
    {f \in names :
        LET parts == RelParts(f, bids_directory)
        IN  Len(parts) = 4 /\ StartsSub(parts[1]) /\ StartsSes(parts[2])
            /\ SubSesNii(parts[4])}

InfoGet(info, spec) == IF spec \in DOMAIN info THEN info[spec] ELSE None

\* the loop `for field in new_fields`: one column per key chain, in the order
\* the set is enumerated; a lookup that raises ends the function
RECURSIVE FieldColumns(_, _, _)
FieldColumns(fields, cols, others) ==
    IF fields = <<>> THEN [exc |-> "none", cols |-> cols]
    ELSE LET got == [i \in DOMAIN others |-> get_chainvalue(Head(fields), others[i])]
         IN  IF \E i \in DOMAIN got : got[i].exc # "none"
             THEN [exc |-> "TypeError", cols |-> <<>>]
             ELSE FieldColumns(Tail(fields),
                     OdSet(cols, ColumnId(Head(fields)),
                           [i \in DOMAIN got |-> got[i].val]),
                     others)

\* the union of the key chains of the files' merged records
RECURSIVE NewFields(_, _)
NewFields(others, dest) ==
    IF others = <<>> THEN dest
    ELSE NewFields(Tail(others), get_keychains(Head(others), dest, <<>>))

\* the `other_fields` of the files, in the order the files were listed
OtherFields(fnames, bids_directory, files, hdrs, dir) ==
    [i \in DOMAIN fnames |->
        InfoGet(_describe_mri_file(fnames[i], bids_directory, files, hdrs, dir).info,
                "other_fields")]

\* fnames: the files in the order the two globs listed them; fieldOrder: the
\* key chains in the order the set new_fields is enumerated
_get_mri_assay_df(bids_directory, fnames, fieldOrder, files, hdrs, dir) ==
    LET finfo == [i \in DOMAIN fnames |->
                    _describe_mri_file(fnames[i], bids_directory, files, hdrs, dir)]
        collector(spec) == [i \in DOMAIN fnames |-> InfoGet(finfo[i].info, spec)]
        warned == {fnames[i] : i \in {j \in DOMAIN fnames : finfo[j].warned}}
        head == <<Column(<<"Protocol REF">>,
                         [i \in DOMAIN fnames |-> Str(<<"Magnetic Resonance Imaging">>)])>>
        fixed == OdSet(OdSet(OdSet(OdSet(head,
                    <<"Sample Name">>, collector("sample_name")),
                    ParameterValue(<<"Modality">>), collector("type")),
                    ParameterValue(<<"Resolution">>), collector("resolution")),
                    <<"Unit">>, collector("resolutions_units"))
        params == FieldColumns(fieldOrder, fixed, collector("other_fields"))
        all == OdSet(OdSet(params.cols,
                    <<"Assay Name">>, collector("assay_name")),
                    <<"Raw Data File">>, collector("raw_filepath"))
        \* the files described before the first one whose header cannot be read
        before == {i \in DOMAIN fnames : \A j \in 1..i : finfo[j].exc = "none"}
    IN  IF \E i \in DOMAIN fnames : finfo[i].exc # "none"
        THEN [exc |-> "ImageFileError",
              warned |-> {fnames[i] : i \in {j \in before : finfo[j].warned}},
              df |-> <<>>]
        ELSE IF params.exc # "none"
        THEN [exc |-> params.exc, warned |-> warned, df |-> <<>>]
        ELSE [exc |-> "none", warned |-> warned,
              df |-> SortValues(all, <<"Assay Name">>)]

----------------------------------------------------------------------------
(* Specification of the assay table builder *)

\* sub-01/func/sub-01_bold.nii.gz, sub-02/func/sub-02_bold.nii.gz
AssayFile(sub) == Under(<<sub, Func>>, Nii(JoinWith(<<sub, Bold>>, "_")))
AssayFiles == {AssayFile(Sub01), AssayFile(Sub02)}
\* the subject-level sidecar of each file
AssayJson(sub) == Under(<<sub>>, Json(JoinWith(<<sub, Bold>>, "_")))
AssayJsonPaths == {AssayJson(Sub01), AssayJson(Sub02)}

AssayContents ==
    {Flat(<<"FlipAngle">>, Num1), Flat(<<"flipangle">>, Num2),
     Flat(<<"EchoTime">>, Num1),
     Flat(<<"a">>, Num1), Flat(<<"a">>, Flat(<<"b">>, Num1)),
     Flat(<<"Resolution">>, Num2),
     Dict([k \in {<<"a">>, <<"EchoTime">>} |-> Num2])}

InitAssay ==
    /\ \E present \in SUBSET AssayJsonPaths : jsonFiles \in [present -> AssayContents]
    /\ headers \in [AssayFiles -> HeaderStates]
    /\ cwd = <<"/">>
    /\ runs = <<>>
    /\ KeychainIdle
    /\ MergeIdle
    /\ StudyIdle
    /\ ExtractIdle

GetMriAssayDf ==
    /\ Len(runs) < MaxRuns
    /\ \E plain \in Orders(GlobPlain(DOMAIN headers, BidsRoot)) :
       \E session \in Orders(GlobSession(DOMAIN headers, BidsRoot)) :
       \E fieldOrder \in Orders(NewFields(
               OtherFields(plain \o session, BidsRoot, jsonFiles, headers, cwd), {})) :
          runs' = Append(runs,
                    _get_mri_assay_df(BidsRoot, plain \o session, fieldOrder,
                                      jsonFiles, headers, cwd))
    /\ UNCHANGED <<keychainVars, treeVars, mergeVars, studyVars, extractVars>>

NextAssay == GetMriAssayDf

SpecAssay == InitAssay /\ [][NextAssay]_vars

----------------------------------------------------------------------------
(* _get_study_df *)

\* list.sort() of a list of text
RECURSIVE SortText(_)
SortText(l) ==
    IF l = <<>> THEN <<>>
    ELSE LET least == CHOOSE i \in DOMAIN l :
                        \A j \in DOMAIN l : ~TextLess(l[j], l[i])
         IN  <<l[least]>>
             \o SortText([i \in 1..(Len(l) - 1) |-> IF i < least THEN l[i] ELSE l[i + 1]])

\* the right rows that match left row i, in the order of the right table
RECURSIVE MatchesOf(_, _, _)
MatchesOf(key, rightKeys, j) ==
    IF j > Len(rightKeys) THEN <<>>
    ELSE (IF rightKeys[j] = key THEN <<j>> ELSE <<>>)
         \o MatchesOf(key, rightKeys, j + 1)

\* the pairs <<left row, right row>> of an inner join, in the order of the
\* left keys
RECURSIVE InnerPairs(_, _, _)
InnerPairs(leftKeys, rightKeys, i) ==
    IF i > Len(leftKeys) THEN <<>>
    ELSE LET m == MatchesOf(leftKeys[i], rightKeys, 1)
         IN  [n \in DOMAIN m |-> <<i, m[n]>>] \o InnerPairs(leftKeys, rightKeys, i + 1)

ColumnOf(cols, name) == cols[CHOOSE i \in DOMAIN cols : cols[i].name = name]

\* pd.merge(left, right, left_on=on, right_on=on): how defaults to 'inner'
pd_merge(left, right, on) ==
    LET pairs == InnerPairs(ColumnOf(left, on).vals, ColumnOf(right, on).vals, 1)
        rest == SelectSeq(right, LAMBDA c : c.name # on)
    IN  [i \in DOMAIN left |->
            Column(left[i].name, [r \in DOMAIN pairs |-> left[i].vals[pairs[r][1]]])]
        \o [i \in DOMAIN rest |->
            Column(rest[i].name, [r \in DOMAIN pairs |-> rest[i].vals[pairs[r][2]]])]

Characteristics(n) == <<"Characteristics[">> \o n \o <<"]">>
Comment(n) == <<"Comment[">> \o n \o <<"]">>

\* participants.tsv as read_csv gives it, renamed: participant_id becomes
\* Sample Name with its first four characters cut, any other column col
\* becomes Comment[col]
participants_df(rows) ==
    <<Column(<<"Sample Name">>,
             [r \in DOMAIN rows |-> Str(DropChars(rows[r].participant_id, 4))]),
      Column(Comment(<<"age">>), [r \in DOMAIN rows |-> rows[r].age])>>

\* globbed: the entries of the study root that match sub-*, in the order glob
\* listed them
_get_study_df(globbed, entries, tsv) ==
    LET dirs == SelectSeq(globbed, LAMBDA e : entries[e])
        subject_ids == SortText([i \in DOMAIN dirs |-> DropChars(dirs[i], 4)])
        ids == [i \in DOMAIN subject_ids |-> Str(subject_ids[i])]
        const(v) == [i \in DOMAIN subject_ids |-> Str(<<v>>)]
        df == <<Column(<<"Source Name">>, ids),
                Column(Characteristics(<<"organism">>), const("Homo sapiens")),
                Column(<<"Term Source REF">>, const("NCBITAXON")),
                Column(<<"Term Accession Number">>, const("NCBITaxon:9606")),
                Column(Characteristics(<<"organism part">>), const("brain")),
                Column(<<"Protocol REF">>, const("Participant recruitment")),
                Column(<<"Sample Name">>, ids)>>
    IN  IF tsv.exists
        THEN pd_merge(df, participants_df(tsv.rows), <<"Sample Name">>)
        ELSE df

----------------------------------------------------------------------------
(* Specification of the study table builder *)

Sub03 == <<"sub", "-", "03">>
SubjectNames == {Sub01, Sub02, Sub03}

ParticipantRows == [participant_id : SubjectNames, age : {Num1}]

InitStudy ==
    /\ \E present \in SUBSET SubjectNames : rootEntries \in [present -> BOOLEAN]
    /\ \/ participants = [exists |-> FALSE, rows |-> <<>>]
       \/ \E n \in 0..MaxParticipants :
             \E rows \in [1..n -> ParticipantRows] :
                participants = [exists |-> TRUE, rows |-> rows]
    /\ studyDf = NoTable
    /\ KeychainIdle
    /\ TreeIdle
    /\ MergeIdle
    /\ AssayIdle
    /\ ExtractIdle

GetStudyDf ==
    /\ ~studyDf.done
    /\ \E globbed \in Orders(DOMAIN rootEntries) :
          studyDf' = [done |-> TRUE,
                      df |-> _get_study_df(globbed, rootEntries, participants)]
    /\ UNCHANGED <<keychainVars, treeVars, mergeVars, assayVars, extractVars,
                   rootEntries, participants>>

NextStudy == GetStudyDf

SpecStudy == InitStudy /\ [][NextStudy]_vars

----------------------------------------------------------------------------
(* ontology_term_map, _drop_from_df, _df_with_ontology_info, main *)

Qualitative(terms) == [type |-> "dict", terms |-> terms, items |-> <<>>]
Quantitative(ref, acs, unit) ==
    [type |-> "tuple", terms |-> EmptyMap, items |-> <<ref, acs, unit>>]
NoTerm == [type |-> "NoneType", terms |-> EmptyMap, items |-> <<>>]

SexTerms ==
    [v \in {<<"female">>, <<"male">>} |->
        IF v = <<"female">> THEN <<"PATO", "PATO:0000383">>
        ELSE <<"PATO", "PATO:0000384">>]

HandednessTerms ==
    [v \in {<<"right">>, <<"left">>, <<"ambidextrous">>} |->
        CASE v = <<"right">> -> <<"PATO", "PATO:0002203">>
          [] v = <<"left">> -> <<"PATO", "PATO:0002202">>
          [] OTHER -> <<"PATO", "PATO:0002204">>]

QualitativeColumns ==
    {Characteristics(<<"organism">>), Characteristics(<<"organism part">>),
     Characteristics(<<"sex">>), Characteristics(<<"handedness">>)}

QuantitativeColumns ==
    {Characteristics(<<"age at scan">>), ParameterValue(<<"resolution">>),
     ParameterValue(<<"repetition time">>),
     ParameterValue(<<"magnetic field strength">>),
     ParameterValue(<<"flip angle">>), ParameterValue(<<"echo time">>)}

UntouchedColumns ==
    {ParameterValue(<<"instrument name">>),
     ParameterValue(<<"instrument manufacturer">>),
     ParameterValue(<<"coil type">>), ParameterValue(<<"sequence">>),
     <<"Protocol REF">>, <<"Sample Name">>, <<"Assay Name">>, <<"Raw Data File">>}

ontology_term_map ==
    [c \in QualitativeColumns \cup QuantitativeColumns \cup UntouchedColumns |->
        CASE c = Characteristics(<<"organism">>) ->
                Qualitative([v \in {<<"homo sapiens">>} |->
                                <<"NCBITAXON", "NCBITaxon:9606">>])
          [] c = Characteristics(<<"organism part">>) ->
                Qualitative([v \in {<<"brain">>} |-> <<"UBERON", "UBERON:0000955">>])
          [] c = Characteristics(<<"sex">>) -> Qualitative(SexTerms)
          [] c = Characteristics(<<"handedness">>) -> Qualitative(HandednessTerms)
          [] c = Characteristics(<<"age at scan">>) ->
                Quantitative("UO", "UO:0000036", "year")
          [] c = ParameterValue(<<"resolution">>) ->
                Quantitative("UO", "UO:0000016", "millimeter")
          [] c = ParameterValue(<<"repetition time">>) ->
                Quantitative("UO", "UO:0000010", "second")
          [] c = ParameterValue(<<"magnetic field strength">>) ->
                Quantitative("UO", "UO:0000228", "tesla")
          [] c = ParameterValue(<<"flip angle">>) ->
                Quantitative("UO", "UO:0000185", "degree")
          [] c = ParameterValue(<<"echo time">>) ->
                Quantitative("UO", "UO:0000010", "second")
          [] OTHER -> NoTerm]

\* ontology_term_map.get(col, None)
TermMapOf(col) ==
    IF col \in DOMAIN ontology_term_map THEN ontology_term_map[col] ELSE NoTerm

\* isinstance(term_map, tuple)
IsTuple(term_map) == term_map.type = "tuple"

\* the values drop_parameter takes: None, a str, a list of str
DropStr(text) == [kind |-> "str", text |-> text, items |-> <<>>]
DropList(items) == [kind |-> "list", text |-> <<>>, items |-> items]
Unknown == DropStr(<<"unknown">>)

\* `k in text` on a str: k occurs in it
IsSubstring(k, text) ==
    \E i \in 1..(Len(text) - Len(k) + 1) : SubSeq(text, i, i + Len(k) - 1) = k

\* `k in drop` once drop is "some iterable"
InDrop(k, drop) ==
    IF drop.kind = "list" THEN \E i \in DOMAIN drop.items : drop.items[i] = k
    ELSE IsSubstring(k, drop.text)

\* the loop `for k in df.keys()`: keys are the columns the table had when the
\* loop began
RECURSIVE DropLoop(_, _, _, _)
DropLoop(keys, cols, drop, out) ==
    IF keys = <<>> THEN [df |-> cols, printed |-> out]
    ELSE IF InDrop(Head(keys), drop)
         THEN DropLoop(Tail(keys),
                       SelectSeq(cols, LAMBDA c : c.name # Head(keys)),
                       drop, Append(out, Head(keys)))
         ELSE DropLoop(Tail(keys), cols, drop, out)

\* the same loop over the live column list: after a column is dropped the next
\* one moves into its place and is skipped
RECURSIVE DropLoopLive(_, _, _, _)
DropLoopLive(i, cols, drop, out) ==
    IF i > Len(cols) THEN [df |-> cols, printed |-> out]
    ELSE IF InDrop(cols[i].name, drop)
         THEN DropLoopLive(i + 1,
                           SelectSeq(cols, LAMBDA c : c.name # cols[i].name),
                           drop, Append(out, cols[i].name))
         ELSE DropLoopLive(i + 1, cols, drop, out)

NamesOf(cols) == [i \in DOMAIN cols |-> cols[i].name]

\* the value of `drop` at "at this point drop is some iterable"
DropIterable(cols, drop) ==
    IF drop = Unknown
    THEN DropList(SelectSeq(NamesOf(cols), LAMBDA k : k \notin DOMAIN ontology_term_map))
    ELSE IF drop.kind = "list"
    THEN DropList([i \in DOMAIN drop.items |-> ParameterValue(drop.items[i])])
    ELSE drop

_drop_from_df_live(cols, drop) ==
    IF drop = DropNone THEN [df |-> cols, printed |-> <<>>]
    ELSE DropLoopLive(1, cols, DropIterable(cols, drop), <<>>)

_drop_from_df(cols, drop) ==
    IF drop = DropNone THEN [df |-> cols, printed |-> <<>>]
    ELSE DropLoop(NamesOf(cols), cols, DropIterable(cols, drop), <<>>)

TermSourceREF == <<"Term Source REF">>
TermAccessionNumber == <<"Term Accession Number">>

\* term_map.get(v, (None, None)), as cells
TermCell(term_map, v, n) ==
    IF v.v \in DOMAIN term_map.terms THEN Str(<<term_map.terms[v.v][n]>>) ELSE None

\* the columns one input column gives
AnnotatedColumn(col) ==
    LET term_map == TermMapOf(col.name)
        const(v) == [r \in DOMAIN col.vals |-> Str(<<v>>)]
    IN  IF term_map = NoTerm THEN <<col>>
        ELSE IF IsTuple(term_map)
        THEN <<col, Column(<<"Unit">>, const(term_map.items[3])),
               Column(TermSourceREF, const(term_map.items[1])),
               Column(TermAccessionNumber, const(term_map.items[2]))>>
        ELSE IF IsTuple(term_map)
        THEN <<col,
               Column(TermSourceREF,
                      [r \in DOMAIN col.vals |-> TermCell(term_map, col.vals[r], 1)]),
               Column(TermAccessionNumber,
                      [r \in DOMAIN col.vals |-> TermCell(term_map, col.vals[r], 2)])>>
        ELSE <<col>>

\* the warnings one input column gives: <<column, value>>
AnnotationWarnings(col) ==
    LET term_map == TermMapOf(col.name)
    IN  IF term_map = NoTerm \/ IsTuple(term_map) THEN {}
        ELSE IF IsTuple(term_map)
        THEN {<<col.name, col.vals[r]>> :
                r \in {q \in DOMAIN col.vals :
                        col.vals[q].v \notin DOMAIN term_map.terms}}
        ELSE {}

RECURSIVE _df_with_ontology_info(_)
_df_with_ontology_info(cols) ==
    IF cols = <<>> THEN [df |-> <<>>, warned |-> {}]
    ELSE LET rest == _df_with_ontology_info(Tail(cols))
         IN  [df |-> AnnotatedColumn(Head(cols)) \o rest.df,
              warned |-> AnnotationWarnings(Head(cols)) \cup rest.warned]

\* what main passes to extract as drop_parameter
MainDropParameter(keep_unknown, drop_parameter) ==
    IF keep_unknown THEN drop_parameter ELSE Unknown

----------------------------------------------------------------------------
(* Specification of extract from the assay table on *)

Male == Str(<<"male">>)
Female == Str(<<"female">>)
Other == Str(<<"other">>)

ColumnPool ==
    {<<"Sample Name">>, <<"Unit">>, ParameterValue(<<"flip angle">>),
     ParameterValue(<<"Modality">>), ParameterValue(<<"a">>),
     Characteristics(<<"sex">>)}

\* the values of a column: a sex per row, or a number
ValuesOf(name) ==
    IF name = Characteristics(<<"sex">>)
    THEN [1..MaxRows -> {Male, Female, Other}]
    ELSE {[r \in 1..MaxRows |-> Num1]}

\* the tables with the given column names, in that order
RECURSIVE TablesOf(_)
TablesOf(names) ==
    IF names = <<>> THEN {<<>>}
    ELSE {<<Column(Head(names), v)>> \o t :
            v \in ValuesOf(Head(names)), t \in TablesOf(Tail(names))}

\* up to MaxCols distinct column names, in any order
NameOrders ==
    UNION {{o \in [1..n -> ColumnPool] : \A i, j \in 1..n : o[i] = o[j] => i = j} :
            n \in 1..MaxCols}

\* --drop-parameter as typed on the command line
CliDropParameters ==
    {DropNone, DropStr(<<"flip angle">>), DropStr(<<"a">>), DropStr(<<"Unit">>),
     DropStr(ParameterValue(<<"flip angle">>))}

\* drop_parameter of a direct call of extract
ApiDropParameters ==
    {DropList(<<<<"flip angle">>>>), DropList(<<<<"a">>, <<"flip angle">>>>)}

Calls ==
    [via : {"main"}, keep_unknown : BOOLEAN, drop_parameter : CliDropParameters]
    \cup [via : {"extract"}, keep_unknown : {FALSE}, drop_parameter : ApiDropParameters]

\* the drop_parameter extract runs with
DropParameterOf(c) ==
    IF c.via = "main" THEN MainDropParameter(c.keep_unknown, c.drop_parameter)
    ELSE c.drop_parameter

InitExtract ==
    /\ \E names \in NameOrders : builtDf \in TablesOf(names)
    /\ assayDf = builtDf
    /\ stage = "built"
    /\ call \in Calls
    /\ printed = <<>>
    /\ warnings = {}
    /\ KeychainIdle
    /\ TreeIdle
    /\ MergeIdle
    /\ AssayIdle
    /\ StudyIdle

DropFromDf ==
    /\ stage = "built"
    /\ LET r == _drop_from_df(assayDf, DropParameterOf(call))
       IN  assayDf' = r.df /\ printed' = r.printed
    /\ stage' = "dropped"
    /\ UNCHANGED <<keychainVars, treeVars, mergeVars, assayVars, studyVars,
                   builtDf, call, warnings>>

DfWithOntologyInfo ==
    /\ stage = "dropped"
    /\ LET r == _df_with_ontology_info(assayDf)
       IN  assayDf' = r.df /\ warnings' = r.warned
    /\ stage' = "annotated"
    /\ UNCHANGED <<keychainVars, treeVars, mergeVars, assayVars, studyVars,
                   builtDf, call, printed>>

NextExtract == DropFromDf \/ DfWithOntologyInfo

SpecExtract == InitExtract /\ [][NextExtract]_vars

----------------------------------------------------------------------------
(* Specification of the two key-chain functions on bounded documents *)

InitKeychain ==
    /\ doc \in Documents
    /\ chain \in Chains
    /\ keychains = [done |-> FALSE, set |-> {}]
    /\ chainvalue = NotCalled
    /\ TreeIdle
    /\ MergeIdle
    /\ AssayIdle
    /\ StudyIdle
    /\ ExtractIdle

GetKeychains ==
    /\ ~keychains.done
    /\ keychains' = [done |-> TRUE, set |-> get_keychains(doc, {}, <<>>)]
    /\ UNCHANGED <<doc, chain, chainvalue, treeVars, mergeVars, assayVars, studyVars, extractVars>>

GetChainvalue ==
    /\ chainvalue = NotCalled
    /\ chainvalue' = get_chainvalue(chain, doc)
    /\ UNCHANGED <<doc, chain, keychains, treeVars, mergeVars, assayVars, studyVars, extractVars>>

NextKeychain == GetKeychains \/ GetChainvalue

SpecKeychain == InitKeychain /\ [][NextKeychain]_vars

----------------------------------------------------------------------------
(* Properties of get_chainvalue and get_keychains *)

\* The value found by following chain p in d: {} when a step is absent
\* (a key that is missing, or a step into something that is no mapping).
RECURSIVE PathValue(_, _)
PathValue(p, d) ==
    IF p = <<>> THEN {d}
    ELSE IF IsDict(d) /\ Head(p) \in DOMAIN d.m
         THEN PathValue(Tail(p), d.m[Head(p)])
         ELSE {}

\* An empty leaf: null, the empty string, the empty list.
IsEmptyLeaf(v) == v.t = "null" \/ (v.t \in {"str", "list"} /\ v.v = <<>>)

\* The key paths of the leaves of d that are neither empty nor the sentinel.
FilledLeafPaths(d) ==
    {p \in UNION {ChainsOfLength(n) : n \in 0..MaxDepth} :
        \E v \in PathValue(p, d) :
            ~IsDict(v) /\ ~IsEmptyLeaf(v) /\ ~EqUndefined(v)}

\* C9: get_chainvalue never raises: it returns the value at the chain when
\* the whole chain exists in the document and None when a step is absent,
\* whatever the shape of the document.
C9_ChainvalueNeverRaises ==
    chainvalue # NotCalled =>
        /\ chainvalue.exc = "none"
        /\ PathValue(chain, doc) # {} => chainvalue.val \in PathValue(chain, doc)
        /\ PathValue(chain, doc) = {} => chainvalue.val = None

\* C10: get_keychains gives exactly the key paths of the leaves that are
\* non-empty and not 'UNDEFINED', and get_chainvalue of each of them gives
\* that leaf, which is neither None nor the sentinel.
C10_FlattenLookupConsistent ==
    keychains.done =>
        /\ keychains.set = FilledLeafPaths(doc)
        /\ \A p \in keychains.set :
              LET r == get_chainvalue(p, doc)
              IN  /\ r.exc = "none"
                  /\ r.val \in PathValue(p, doc)
                  /\ r.val # None
                  /\ ~EqUndefined(r.val)

----------------------------------------------------------------------------
(* Properties of the sidecar merge *)

\* field k is present in the sidecar at path p of the tree
HasField(p, k) == p \in DOMAIN jsonFiles /\ k \in DOMAIN jsonFiles[p].m

\* the merged metadata record of a described file
MergedOf(f) == described[f].info["other_fields"]

\* a field present in both the top-level and the file-adjacent sidecar of a
\* file takes the file-adjacent value
FileLevelWins(f, k) ==
    HasField(TopJson, k) /\ HasField(FileJson(f), k) =>
        k \in DOMAIN MergedOf(f).m /\ MergedOf(f).m[k] = jsonFiles[FileJson(f)].m[k]

\* a field present only in the subject-level sidecar reaches the file
SubjectLevelPropagates(f, k) ==
    /\ HasField(SubjectJson, k)
    /\ \A p \in MergeJsonPaths \ {SubjectJson} : ~HasField(p, k)
    => k \in DOMAIN MergedOf(f).m /\ MergedOf(f).m[k] = jsonFiles[SubjectJson].m[k]

\* C1: in the merged record of every described data file, a field present at
\* both Top and File level holds the File-level value, and a field present
\* only at Subject level holds the Subject-level value.
C1_MergePrecedence ==
    \A f \in MergeFiles : \A k \in Keys :
        described[f].exc = "none" =>
            FileLevelWins(f, k) /\ SubjectLevelPropagates(f, k)

----------------------------------------------------------------------------
(* Properties of the assay table *)

\* the columns of a table that carry a name
ColumnsNamed(df, name) == {i \in DOMAIN df : df[i].name = name}

\* the row of a data file in a table: the one with its raw file path
RowsOf(df, f) ==
    LET raw == CHOOSE i \in DOMAIN df : df[i].name = <<"Raw Data File">>
    IN  {r \in DOMAIN df[raw].vals :
            df[raw].vals[r] = Str(SubSeq(f, Len(BidsRoot) + 1, Len(f)))}

\* the merged metadata record of a data file of the tree
RecordOf(f) == get_metadata_for_nifti(BidsRoot, psplitTail(f), jsonFiles, cwd)

\* the key paths get_keychains emits for at least one record
EmittedPaths == UNION {get_keychains(RecordOf(f), {}, <<>>) : f \in DOMAIN headers}

\* the value of a record at a key path, null when absent
ValueOrNull(p, d) ==
    IF PathValue(p, d) = {} THEN None ELSE CHOOSE v \in PathValue(p, d) : TRUE

FixedColumnNames ==
    {<<"Protocol REF">>, <<"Sample Name">>, ParameterValue(<<"Modality">>),
     ParameterValue(<<"Resolution">>), <<"Unit">>, <<"Assay Name">>,
     <<"Raw Data File">>}

\* key path p has a column of its own in the table, holding for each file
\* the value at p in the file's record
OwnColumn(df, p) ==
    /\ Cardinality(ColumnsNamed(df, ColumnId(p))) = 1
    /\ ColumnId(p) \notin FixedColumnNames
    /\ \A q \in EmittedPaths \ {p} : ColumnId(q) # ColumnId(p)
    /\ \A i \in ColumnsNamed(df, ColumnId(p)) : \A f \in DOMAIN headers :
          /\ RowsOf(df, f) # {}
          /\ \A r \in RowsOf(df, f) : df[i].vals[r] = ValueOrNull(p, RecordOf(f))

\* C4: whenever the files' headers are readable, the assay table is built
\* and every key path found in some file's record has exactly one column of
\* its own (not shared with another key path or a fixed column), holding
\* each file's value at that path, or null.
C4_UnionOfKeysComplete ==
    \A n \in DOMAIN runs :
        runs[n].exc # "ImageFileError" =>
            /\ runs[n].exc = "none"
            /\ \A p \in EmittedPaths : OwnColumn(runs[n].df, p)

\* C5: two runs on the same study tree give the same assay table, whatever
\* order the files and the key paths are enumerated in.
C5_ReproducibleOrder ==
    \A n, k \in DOMAIN runs :
        runs[n].exc = "none" /\ runs[k].exc = "none" => runs[n].df = runs[k].df

CellOf(df, name, r) ==
    LET i == CHOOSE j \in DOMAIN df : df[j].name = name IN df[i].vals[r]

Unreadable(f) == headers[f] \in {"missing", "corrupt"}

\* C8: a file whose header cannot be read (a dead link, or a file the header
\* reader fails on) does not end the run: the table has its row, with the
\* identity fields set and resolution and unit null, and a warning is
\* logged for it.
C8_UnreadableHeaderRecovered ==
    \A n \in DOMAIN runs :
        runs[n].exc # "TypeError" =>
            /\ runs[n].exc = "none"
            /\ \A f \in DOMAIN headers :
                  /\ RowsOf(runs[n].df, f) # {}
                  /\ \A r \in RowsOf(runs[n].df, f) :
                        /\ CellOf(runs[n].df, <<"Sample Name">>, r) # None
                        /\ CellOf(runs[n].df, <<"Assay Name">>, r) # None
                        /\ Unreadable(f) =>
                              /\ f \in runs[n].warned
                              /\ CellOf(runs[n].df, <<"Unit">>, r) = None

----------------------------------------------------------------------------
(* Properties of the study table *)

\* the ids of the subject directories of the study root
DiscoveredIds ==
    {DropChars(e, 4) : e \in {x \in DOMAIN rootEntries : rootEntries[x]}}

\* C3: the study table has exactly one row per discovered subject, in
\* ascending order of subject id, whatever participants.tsv holds.
C3_OneRowPerSubject ==
    studyDf.done =>
        LET names == ColumnOf(studyDf.df, <<"Sample Name">>).vals
        IN  /\ \A s \in DiscoveredIds :
                  Cardinality({r \in DOMAIN names : names[r] = Str(s)}) = 1
            /\ Len(names) = Cardinality(DiscoveredIds)
            /\ \A r, q \in DOMAIN names : r < q => TextLess(names[r].v, names[q].v)

----------------------------------------------------------------------------
(* Properties of the column filter and of the ontology annotation *)

IsQualitative(name) ==
    name \in DOMAIN ontology_term_map /\ ontology_term_map[name].type = "dict"

\* the term of a raw value in a qualitative table, null when unknown
TermOf(name, v, n) ==
    IF v.v \in DOMAIN ontology_term_map[name].terms
    THEN Str(<<ontology_term_map[name].terms[v.v][n]>>)
    ELSE None

\* C2: in the annotated table every qualitative column is followed by a Term
\* Source REF and a Term Accession Number column holding, row by row, the
\* term of the raw value, or null for an unknown value, which is warned of.
C2_QualitativeAnnotation ==
    stage = "annotated" =>
        \A i \in DOMAIN assayDf :
            IsQualitative(assayDf[i].name) =>
                /\ i + 2 <= Len(assayDf)
                /\ assayDf[i + 1].name = TermSourceREF
                /\ assayDf[i + 2].name = TermAccessionNumber
                /\ \A r \in DOMAIN assayDf[i].vals :
                      LET v == assayDf[i].vals[r]
                      IN  /\ assayDf[i + 1].vals[r] = TermOf(assayDf[i].name, v, 1)
                          /\ assayDf[i + 2].vals[r] = TermOf(assayDf[i].name, v, 2)
                          /\ TermOf(assayDf[i].name, v, 1) = None
                                => <<assayDf[i].name, v>> \in warnings

\* the table with the columns of that name taken out
Without(cols, name) == SelectSeq(cols, LAMBDA c : c.name # name)

\* C6: with --keep-unknown and --drop-parameter n, n a parameter of the table
\* built, the final table is the one of a run without the exclusion less the
\* column Parameter Value[n] and its Unit and Term columns.
C6_DropExplicit ==
    /\ stage = "annotated"
    /\ call.via = "main" /\ call.keep_unknown /\ call.drop_parameter.kind = "str"
    /\ ParameterValue(call.drop_parameter.text) \in ColumnNames(builtDf)
    => assayDf = _df_with_ontology_info(
                    Without(builtDf, ParameterValue(call.drop_parameter.text))).df

Listed(c) == c.name \in DOMAIN ontology_term_map

\* C7: under the 'unknown' policy _drop_from_df leaves exactly the columns
\* named in ontology_term_map, their values and order unchanged, and prints
\* the name of every other column.
C7_DropUnlisted ==
    stage = "dropped" /\ DropParameterOf(call) = Unknown =>
        /\ assayDf = SelectSeq(builtDf, Listed)
        /\ {printed[i] : i \in DOMAIN printed}
              = {builtDf[i].name : i \in {j \in DOMAIN builtDf : ~Listed(builtDf[j])}}

\* a table filtered under the 'unknown' policy that began with two unlisted
\* columns ahead of a listed one
C7_Witness ==
    /\ stage = "dropped" /\ DropParameterOf(call) = Unknown
    /\ Len(builtDf) >= 3
    /\ ~Listed(builtDf[1]) /\ ~Listed(builtDf[2]) /\ Listed(builtDf[3])
    /\ Len(printed) = 2 /\ Len(assayDf) = Len(builtDf) - 2

====
